---- MODULE Spec2Model ----
(***************************************************************************)
(* Model of the FlashVSR inference driver                                  *)
(* (infer_flashvsr_v1.1_full_modified.py): the dimension planner, the      *)
(* temporal padding to 8n+1 frames, the per-frame upscale-and-crop, the    *)
(* two ingestion branches of prepare_input_tensor and the batch loop of    *)
(* main.                                                                   *)
(*                                                                         *)
(* Floating point values (scale, scale_eff) are modelled as exact          *)
(* fractions <<numerator, denominator>> with a positive denominator.  On   *)
(* the inputs enumerated here the float64 evaluation of                    *)
(* compute_scaled_and_target_dims and the exact evaluation with            *)
(* round-half-to-even (Python's round) give the same integers.             *)
(***************************************************************************)
EXTENDS Integers, Sequences, FiniteSets

VARIABLES
    pc,        \* position of the running function
    w0, h0,    \* native size of the source
    scale,     \* requested scale, a fraction
    max_w, max_h, multiple,   \* bounds and block size given to the planner
    plan,      \* what compute_scaled_and_target_dims returned (or raised)
    padArg,    \* argument of largest_8n1_leq
    F,         \* frame count returned by largest_8n1_leq
    pos,       \* main: 1-based position of p in inputs
    kind,      \* what the path p is: "dir", "video" or "other"
    total,     \* number of source frames (N0 / total)
    rdr,       \* the imageio reader: "none", "open" or "closed"
    meta,      \* rdr.get_meta_data(): "none", "read" or "failed"
    idx,       \* padded, truncated sequence of 0-based source indices
    frames,    \* source index of each frame appended to `frames`
    crop,      \* outcome of the last upscale_then_center_crop
    attempted, \* positions for which prepare_input_tensor was called
    skipped,   \* positions skipped because the name starts with '.'
    reported,  \* positions whose error main printed before continuing
    err,       \* kind of the last failure, "none" if none
    errPos,    \* position of the input that failed last
    writer,    \* the imageio writer: "none", "open" or "closed"
    written,   \* frames appended to the writer
    path,      \* what the file system holds at the path p
    fpsMeta,   \* the 'fps' entry of the stream metadata
    fps,       \* the fps local of prepare_input_tensor, passed to save_video
    tiers,     \* count_frames: the tiers tried so far, with their outcomes
    writerFps, \* the fps the writer was opened with
    prev,      \* result of an earlier call, kept by a caller comparing two
    listing,   \* os.listdir(folder): file names in arbitrary order
    sorted,    \* what list_images_natural returned
    dir_exists,       \* process_directory: dir_path.exists()
    reference_params, \* whether reference_params holds parameters
    dry_run,          \* process_directory: the dry_run argument
    mp4_files, \* what the file system holds under the name of each MP4
    video_file,\* 1-based position of video_file in mp4_files
    temp_file, \* what the file system holds under the name of temp_file
    stats      \* process_directory: the statistics counted so far

dimVars == <<w0, h0, scale, max_w, max_h, multiple, plan>>
padVars == <<padArg, F>>
srcVars == <<kind, total, rdr, meta, idx, frames, crop>>
mainVars == <<pos, attempted, skipped, reported, err, errPos, writer, written>>
sortVars == <<listing, sorted>>
normVars == <<dir_exists, reference_params, dry_run, mp4_files, video_file,
              temp_file, stats>>
auxVars == <<path, fpsMeta, fps, tiers, writerFps, prev, sortVars,
             normVars>>
vars == <<pc, dimVars, padVars, srcVars, mainVars, auxVars>>

-----------------------------------------------------------------------------
(* Bounds of the enumerated inputs *)

MaxDim == 6
MaxBound == 8
MaxMultiple == 4
MaxPadArg == 50
NumInputs == 2
MaxFrames == 13
MaxStemLen == 2
MaxVideos == 2

(* Program constants *)

DefaultScale == 4
DefaultMaxW == 2560
DefaultMaxH == 1440
BlockSize == 128
DefaultFps == 30
PadCount == 4

-----------------------------------------------------------------------------
(* Fractions *)

Frac(n, d) == <<n, d>>
FracLeq(a, b) == a[1] * b[2] <= b[1] * a[2]
FracLt(a, b) == a[1] * b[2] < b[1] * a[2]
FracEq(a, b) == a[1] * b[2] = b[1] * a[2]
FracMin(a, b) == IF FracLeq(a, b) THEN a ELSE b
FracMax(a, b) == IF FracLt(a, b) THEN b ELSE a
One == Frac(1, 1)

IntMin(a, b) == IF a <= b THEN a ELSE b
IntMax(a, b) == IF a >= b THEN a ELSE b

\* int(round(k * f)) for an integer k >= 0 and a fraction f >= 0:
\* round half to even on the exact product
RoundProduct(k, f) ==
    LET num == k * f[1]
        den == f[2]
        q == num \div den
        r2 == 2 * (num % den)
    IN  IF r2 > den THEN q + 1
        ELSE IF r2 < den THEN q
        ELSE IF q % 2 = 0 THEN q ELSE q + 1

-----------------------------------------------------------------------------
(* compute_scaled_and_target_dims *)

\* scale_eff = max(1.0, min(scale, max_w / w0, max_h / h0))
ScaleEffNoLowerClamp(w, h, s, mw, mh) ==
    FracMin(s, FracMin(Frac(mw, w), Frac(mh, h)))
ScaleEff(w, h, s, mw, mh) ==
    FracMax(One, FracMin(s, FracMin(Frac(mw, w), Frac(mh, h))))

\* floor_w = max(multiple, (sW // multiple) * multiple)
FloorBlockUnrounded(s, m) == IntMax(m, s)
FloorBlock(s, m) == IntMax(m, (s \div m) * m)
\* ceil_w = max(multiple, ((sW + multiple - 1) // multiple) * multiple)
CeilBlock(s, m) == IntMax(m, ((s + m - 1) \div m) * m)

\* lines 86-90: the joint choice between the ceiling pair and the clamped
\* floor pair
TargetDimsPerAxis(sW, sH, mw, mh, m) ==
    << IF CeilBlock(sW, m) <= mw THEN CeilBlock(sW, m)
                                 ELSE IntMin(FloorBlock(sW, m), mw),
       IF CeilBlock(sH, m) <= mh THEN CeilBlock(sH, m)
                                 ELSE IntMin(FloorBlock(sH, m), mh) >>
TargetDims(sW, sH, mw, mh, m) ==
    LET can_round_up == CeilBlock(sW, m) <= mw /\ CeilBlock(sH, m) <= mh
    IN  IF can_round_up
        THEN <<CeilBlock(sW, m), CeilBlock(sH, m)>>
        ELSE <<IntMin(FloorBlock(sW, m), mw), IntMin(FloorBlock(sH, m), mh)>>

NoPlan ==
    [raised |-> FALSE, sW |-> 0, sH |-> 0, tW |-> 0, tH |-> 0, scale_eff |-> One]

\* if w0 <= 0 or h0 <= 0
InvalidSizeWidthOnly(w, h) == w <= 0
InvalidSize(w, h) == w <= 0 \/ h <= 0

compute_scaled_and_target_dims(w, h, s, mw, mh, m) ==
    IF InvalidSize(w, h)
    THEN [NoPlan EXCEPT !.raised = TRUE]
    ELSE LET se == ScaleEff(w, h, s, mw, mh)
             sW == RoundProduct(w, se)
             sH == RoundProduct(h, se)
             t == TargetDims(sW, sH, mw, mh, m)
         IN  [raised |-> FALSE, sW |-> sW, sH |-> sH,
              tW |-> t[1], tH |-> t[2], scale_eff |-> se]

-----------------------------------------------------------------------------
(* largest_8n1_leq *)

largest_8n1_leq_offByOne(n) == IF n < 1 THEN 0 ELSE (n \div 8) * 8 + 1
largest_8n1_leq(n) == IF n < 1 THEN 0 ELSE ((n - 1) \div 8) * 8 + 1

\* idx = list(range(total)) + [total - 1] * 4, as a sequence of 0-based
\* source indices (range of a non-positive total is empty)
PaddedIdxPastEnd(n) ==
    [k \in 1 .. (IntMax(n, 0) + PadCount) |->
        IF k <= n THEN k - 1 ELSE n]
PaddedIdx(n) ==
    [k \in 1 .. (IntMax(n, 0) + PadCount) |->
        IF k <= n THEN k - 1 ELSE n - 1]

\* paths[:F] / idx[:F]: a Python slice stops at the end of the list
TakeAll(s, n) == s
Take(s, n) == SubSeq(s, 1, IntMin(IntMax(n, 0), Len(s)))

-----------------------------------------------------------------------------
(* upscale_then_center_crop *)

NoCrop == [raised |-> FALSE, box |-> <<0, 0, 0, 0>>]

\* l = max(0, (sW - tW) // 2); t = max(0, (sH - tH) // 2);
\* up.crop((l, t, l + tW, t + tH)).  Nothing is compared: a box that
\* extends past the sW x sH image is cropped all the same.
upscale_then_center_crop(sW, sH, tW, tH) ==
    LET l == IntMax(0, (sW - tW) \div 2)
        t == IntMax(0, (sH - tH) \div 2)
    IN  [raised |-> FALSE, box |-> <<l, t, l + tW, t + tH>>]

-----------------------------------------------------------------------------
(* State of the driver before main's loop starts *)

SrcIdle ==
    /\ kind = "none" /\ total = 0 /\ rdr = "none" /\ meta = "none"
    /\ idx = <<>> /\ frames = <<>> /\ crop = NoCrop

\* a path not looked at yet, and metadata without an 'fps' entry
NoPath == [type |-> "none", videoExt |-> FALSE]
FpsAbsent == [kind |-> "absent", val |-> Frac(0, 1)]

\* no earlier result kept
NoResult == [set |-> FALSE, err |-> "none", w0 |-> 0, h0 |-> 0, total |-> 0,
             plan |-> NoPlan, F |-> 0, idx |-> <<>>, frames |-> <<>>]

AuxIdle ==
    /\ path = NoPath /\ fpsMeta = FpsAbsent /\ fps = 0 /\ tiers = <<>>
    /\ writerFps = 0 /\ prev = NoResult

SortIdle == listing = <<>> /\ sorted = <<>>

\* stats = {'processed': 0, 'success': 0, 'errors': 0, 'skipped': 0}
NoStats == [processed |-> 0, success |-> 0, errors |-> 0, skipped |-> 0]

\* process_directory is not running
NormIdle ==
    /\ dir_exists = FALSE /\ reference_params = FALSE /\ dry_run = FALSE
    /\ mp4_files = <<>> /\ video_file = 0 /\ temp_file = "absent"
    /\ stats = NoStats

DriverIdle ==
    /\ SrcIdle
    /\ pos = 1 /\ attempted = {} /\ skipped = {} /\ reported = {}
    /\ err = "none" /\ errPos = 0 /\ writer = "none" /\ written = <<>>
    /\ AuxIdle

-----------------------------------------------------------------------------
(* The planner applied to enumerated arguments *)

PlanWidths == (-1 .. MaxDim) \cup {1920}
PlanHeights == (-1 .. MaxDim) \cup {1080}
PlanScales == {Frac(1, 2), Frac(1, 1), Frac(3, 2), Frac(DefaultScale, 1)}
PlanMaxWs == (1 .. MaxBound) \cup {DefaultMaxW}
PlanMaxHs == (1 .. MaxBound) \cup {DefaultMaxH}
PlanMultiples == (1 .. MaxMultiple) \cup {BlockSize}

InitDims ==
    /\ pc = "plan_call"
    /\ w0 \in PlanWidths
    /\ h0 \in PlanHeights
    /\ scale \in PlanScales
    /\ max_w \in PlanMaxWs
    /\ max_h \in PlanMaxHs
    /\ multiple \in PlanMultiples
    /\ plan = NoPlan
    /\ padArg = 0
    /\ F = 0
    /\ DriverIdle
    /\ SortIdle
    /\ NormIdle

PlanCall ==
    /\ pc = "plan_call"
    /\ plan' = compute_scaled_and_target_dims(w0, h0, scale, max_w, max_h, multiple)
    /\ pc' = IF plan'.raised THEN "plan_raised" ELSE "plan_ret"
    /\ UNCHANGED <<auxVars, w0, h0, scale, max_w, max_h, multiple, padVars, srcVars, mainVars>>

NextDims == PlanCall

SpecDims == InitDims /\ [][NextDims]_vars

-----------------------------------------------------------------------------
(* largest_8n1_leq applied to enumerated arguments *)

InitPad ==
    /\ pc = "pad_call"
    /\ padArg \in (0 - MaxPadArg) .. MaxPadArg
    /\ F = 0
    /\ w0 = 0 /\ h0 = 0
    /\ scale = Frac(DefaultScale, 1)
    /\ max_w = DefaultMaxW /\ max_h = DefaultMaxH /\ multiple = BlockSize
    /\ plan = NoPlan
    /\ DriverIdle
    /\ SortIdle
    /\ NormIdle

PadCall ==
    /\ pc = "pad_call"
    /\ F' = largest_8n1_leq(padArg)
    /\ pc' = "pad_ret"
    /\ UNCHANGED <<auxVars, dimVars, padArg, srcVars, mainVars>>

NextPad == PadCall

SpecPad == InitPad /\ [][NextPad]_vars

-----------------------------------------------------------------------------
(* natural_key and list_images_natural *)

\* A file name is a sequence of one-character strings.
UpperLetters ==
    << "A", "B", "C", "D", "E", "F", "G", "H", "I", "J", "K", "L", "M",
       "N", "O", "P", "Q", "R", "S", "T", "U", "V", "W", "X", "Y", "Z" >>
LowerLetters ==
    << "a", "b", "c", "d", "e", "f", "g", "h", "i", "j", "k", "l", "m",
       "n", "o", "p", "q", "r", "s", "t", "u", "v", "w", "x", "y", "z" >>
DigitChars == << "0", "1", "2", "3", "4", "5", "6", "7", "8", "9" >>

IndexIn(c, letters) == CHOOSE i \in 1 .. Len(letters) : letters[i] = c
IsIn(c, letters) == \E i \in 1 .. Len(letters) : letters[i] = c

\* the code point of a character (ASCII), the order str comparison uses
CharCode(c) ==
    IF IsIn(c, DigitChars) THEN 47 + IndexIn(c, DigitChars)
    ELSE IF IsIn(c, UpperLetters) THEN 64 + IndexIn(c, UpperLetters)
    ELSE IF IsIn(c, LowerLetters) THEN 96 + IndexIn(c, LowerLetters)
    ELSE 46

\* t.lower()
LowerChar(c) ==
    IF IsIn(c, UpperLetters) THEN LowerLetters[IndexIn(c, UpperLetters)]
    ELSE c
LowerStr(t) == [i \in 1 .. Len(t) |-> LowerChar(t[i])]

\* t.isdigit()
IsDigitStr(t) == t # <<>> /\ \A i \in 1 .. Len(t) : IsIn(t[i], DigitChars)

\* int(t) for a string of decimal digits
RECURSIVE IntOf(_)
IntOf(t) ==
    IF t = <<>> THEN 0
    ELSE 10 * IntOf(SubSeq(t, 1, Len(t) - 1))
           + (IndexIn(t[Len(t)], DigitChars) - 1)

\* the last position of the run that starts at i and whose characters are
\* all digits (digit = TRUE) or all non-digits; i - 1 for an empty run
RunEnd(t, i, digit) ==
    CHOOSE j \in (i - 1) .. Len(t) :
        /\ \A k \in i .. j : IsIn(t[k], DigitChars) = digit
        /\ j < Len(t) => IsIn(t[j + 1], DigitChars) # digit

\* re.split(r'([0-9]+)', s): text, digit run, text, ..., text; the text
\* before a leading run, after a trailing run is the empty string
RECURSIVE SplitFrom(_, _, _)
SplitFrom(t, i, digit) ==
    LET j == RunEnd(t, i, digit)
        token == SubSeq(t, i, j)
    IN  IF ~digit /\ j = Len(t) THEN <<token>>
        ELSE <<token>> \o SplitFrom(t, j + 1, ~digit)
ReSplit(t) == SplitFrom(t, 1, FALSE)

\* [int(t) if t.isdigit() else t.lower() for t in re.split(...)]; the path
\* is os.path.join(folder, f), whose basename is the file name f
natural_keyLexicographic(name) ==
    LET tokens == ReSplit(name)
    IN  [i \in 1 .. Len(tokens) |->
            [int |-> FALSE, n |-> 0, s |-> LowerStr(tokens[i])]]
natural_key(name) ==
    LET tokens == ReSplit(name)
    IN  [i \in 1 .. Len(tokens) |->
            IF IsDigitStr(tokens[i])
            THEN [int |-> TRUE, n |-> IntOf(tokens[i]), s |-> <<>>]
            ELSE [int |-> FALSE, n |-> 0, s |-> LowerStr(tokens[i])]]

\* a < b for two str values: the first differing character decides, and a
\* proper prefix is smaller
StrLess(a, b) ==
    \E k \in 1 .. Len(b) :
        /\ k <= Len(a) + 1
        /\ \A i \in 1 .. (k - 1) : a[i] = b[i]
        /\ k = Len(a) + 1 \/ CharCode(a[k]) < CharCode(b[k])

\* a < b for two elements of a key, both int or both str
ElemLess(a, b) == IF a.int /\ b.int THEN a.n < b.n ELSE StrLess(a.s, b.s)

\* a < b for two keys (list comparison)
KeyLess(a, b) ==
    \E k \in 1 .. Len(b) :
        /\ k <= Len(a) + 1
        /\ \A i \in 1 .. (k - 1) : a[i] = b[i]
        /\ k = Len(a) + 1 \/ ElemLess(a[k], b[k])

\* fs.sort(key=natural_key): the stable sort puts fs[i] behind every entry
\* with a smaller key and every earlier entry with an equal key
SortRank(keys, i) ==
    1 + Cardinality({ j \in 1 .. Len(keys) :
            \/ KeyLess(keys[j], keys[i])
            \/ ~KeyLess(keys[i], keys[j]) /\ j < i })
SortNatural(fs) ==
    LET keys == [i \in 1 .. Len(fs) |-> natural_key(fs[i])]
        ranks == [i \in 1 .. Len(fs) |-> SortRank(keys, i)]
    IN  [p \in 1 .. Len(fs) |-> fs[CHOOSE i \in 1 .. Len(fs) : ranks[i] = p]]

\* exts = ('.png', '.jpg', '.jpeg', '.PNG', '.JPG', '.JPEG')
ImageExts ==
    { <<".", "p", "n", "g">>, <<".", "j", "p", "g">>,
      <<".", "j", "p", "e", "g">>, <<".", "P", "N", "G">>,
      <<".", "J", "P", "G">>, <<".", "J", "P", "E", "G">> }

\* f.endswith(exts)
EndsWith(f, e) ==
    Len(f) >= Len(e) /\ SubSeq(f, Len(f) - Len(e) + 1, Len(f)) = e
IsImageName(f) == \E e \in ImageExts : EndsWith(f, e)

\* fs = [... for f in os.listdir(folder) if f.endswith(exts)];
\* fs.sort(key=natural_key); return fs
list_images_natural(names) == SortNatural(SelectSeq(names, IsImageName))

-----------------------------------------------------------------------------
(* list_images_natural applied to enumerated directory listings *)

\* file names: a stem of letters and digits, then an extension
StemChars == {"f", "0", "1", "2"}
Stems == UNION { [1 .. n -> StemChars] : n \in 1 .. MaxStemLen }
NameExts ==
    { <<".", "p", "n", "g">>, <<".", "P", "N", "G">>, <<".", "t", "x", "t">> }
FileNames == { stem \o e : stem \in Stems, e \in NameExts }

\* the names of the example: f1.png, f10.png, f2.png
ExampleNames ==
    { <<"f", "1", ".", "p", "n", "g">>, <<"f", "1", "0", ".", "p", "n", "g">>,
      <<"f", "2", ".", "p", "n", "g">> }

\* what os.listdir can return, in any order: two distinct names, or the
\* three names of the example
Listings ==
    { <<a, b>> : a \in FileNames, b \in FileNames } \cup
    { <<a, b, c>> : a \in ExampleNames, b \in ExampleNames, c \in ExampleNames }
Distinct(names) ==
    \A i \in 1 .. Len(names) : \A j \in 1 .. Len(names) :
        names[i] = names[j] => i = j

InitSort ==
    /\ pc = "sort_call"
    /\ listing \in { l \in Listings : Distinct(l) }
    /\ sorted = <<>>
    /\ w0 = 0 /\ h0 = 0
    /\ scale = Frac(DefaultScale, 1)
    /\ max_w = DefaultMaxW /\ max_h = DefaultMaxH /\ multiple = BlockSize
    /\ plan = NoPlan
    /\ padArg = 0 /\ F = 0
    /\ DriverIdle
    /\ NormIdle

SortCall ==
    /\ pc = "sort_call"
    /\ sorted' = list_images_natural(listing)
    /\ pc' = "sort_ret"
    /\ UNCHANGED <<dimVars, padVars, srcVars, mainVars, path, fpsMeta, fps,
                   tiers, writerFps, prev, listing, normVars>>

NextSort == SortCall

SpecSort == InitSort /\ [][NextSort]_vars

-----------------------------------------------------------------------------
(* main and prepare_input_tensor *)

\* what the first frame of a source can report as its size
SourceSizes == {<<100, 100>>, <<1920, 1080>>, <<1920, 1600>>, <<3000, 1600>>}

policyVars == <<scale, max_w, max_h, multiple>>
localVars == <<w0, h0, plan, padArg, F, kind, total, meta, idx, frames, crop>>

Init ==
    /\ pc = "main_loop"
    /\ w0 = 0 /\ h0 = 0
    /\ scale = Frac(DefaultScale, 1)
    /\ max_w = DefaultMaxW /\ max_h = DefaultMaxH /\ multiple = BlockSize
    /\ plan = NoPlan
    /\ padArg = 0
    /\ F = 0
    /\ DriverIdle
    /\ SortIdle
    /\ NormIdle

\* the locals of prepare_input_tensor and of one loop iteration go out of
\* scope
ClearLocals ==
    /\ w0' = 0 /\ h0' = 0 /\ plan' = NoPlan /\ padArg' = 0 /\ F' = 0
    /\ kind' = "none" /\ total' = 0 /\ meta' = "none"
    /\ idx' = <<>> /\ frames' = <<>> /\ crop' = NoCrop
    /\ path' = NoPath /\ fpsMeta' = FpsAbsent /\ fps' = 0 /\ tiers' = <<>>

\* an exception leaves prepare_input_tensor with the reader in state r;
\* main prints "[Error] name: e" and continues with the next input
Raise(k, r) ==
    /\ ClearLocals
    /\ rdr' = r
    /\ err' = k /\ errPos' = pos
    /\ reported' = reported \cup {pos}
    /\ pos' = pos + 1
    /\ pc' = "main_loop"
    /\ UNCHANGED <<policyVars, attempted, skipped, writer, written, writerFps,
                   prev, sortVars, normVars>>

\* an exception outside main's try block ends the process
Crash(k) ==
    /\ err' = k /\ errPos' = pos
    /\ pc' = "crashed"
    /\ UNCHANGED <<auxVars, policyVars, localVars, rdr, pos, attempted, skipped,
                   reported, writer, written>>

\* the entries of the input folder: what the path names and whether its
\* name ends with one of the video extensions
Paths == [type : {"dir", "file", "missing"}, videoExt : BOOLEAN]

\* os.path.isfile(path) and path.lower().endswith(('.mp4','.mov','.avi','.mkv'))
is_videoByExtension(p) == p.videoExt
is_video(p) == p.type = "file" /\ p.videoExt

\* prepare_input_tensor: if os.path.isdir(path) ... if is_video(path) ...
\* raise ValueError
Classify(p) ==
    IF p.type = "dir" THEN "dir"
    ELSE IF is_video(p) THEN "video"
    ELSE "other"

\* name.startswith('.'): continue
MainSkipHidden ==
    /\ pc = "main_loop" /\ pos <= NumInputs
    /\ skipped' = skipped \cup {pos}
    /\ pos' = pos + 1
    /\ UNCHANGED <<auxVars, pc, dimVars, padVars, srcVars, attempted, reported, err,
                   errPos, writer, written>>

\* try: prepare_input_tensor(p, scale=scale, ...)
MainCallPrepare ==
    /\ pc = "main_loop" /\ pos <= NumInputs
    /\ \E p \in Paths : path' = p
    /\ kind' = Classify(path')
    /\ attempted' = attempted \cup {pos}
    /\ rdr' = "none" /\ writer' = "none"
    /\ err' = "none" /\ errPos' = 0
    /\ pc' = "pit_entry"
    /\ UNCHANGED <<dimVars, padVars, total, meta, idx, frames, crop, pos,
                   skipped, reported, written, fpsMeta, fps, tiers, writerFps,
                   prev, sortVars, normVars>>

\* print("Done.")
MainDone ==
    /\ pc = "main_loop" /\ pos > NumInputs
    /\ pc' = "done"
    /\ UNCHANGED <<auxVars, dimVars, padVars, srcVars, mainVars>>

\* raise ValueError(f"Unsupported input: {path}")
PitUnsupported ==
    /\ pc = "pit_entry" /\ kind = "other"
    /\ Raise("UnsupportedInput", rdr)

\* paths0 = list_images_natural(path): total is len(paths0)
DirList ==
    /\ pc = "pit_entry" /\ kind = "dir"
    /\ \E n \in 0 .. MaxFrames : total' = n
    /\ pc' = "dir_check"
    /\ UNCHANGED <<auxVars, policyVars, w0, h0, plan, padArg, F, kind, rdr, meta,
                   idx, frames, crop, mainVars>>

\* if not paths0: raise FileNotFoundError(f"No images in {path}")
DirCheck ==
    /\ pc = "dir_check"
    /\ \/ total = 0 /\ Raise("EmptySource", rdr)
       \/ /\ total # 0
          /\ pc' = "dir_first"
          /\ UNCHANGED <<auxVars, dimVars, padVars, srcVars, mainVars>>

\* with Image.open(paths0[0]) as _img0: w0, h0 = _img0.size
DirFirst ==
    /\ pc = "dir_first"
    /\ \/ Raise("DecodeError", rdr)
       \/ /\ \E sz \in SourceSizes : w0' = sz[1] /\ h0' = sz[2]
          /\ pc' = "dir_plan"
          /\ UNCHANGED <<auxVars, policyVars, plan, padArg, F, kind, total, rdr, meta,
                         idx, frames, crop, mainVars>>

\* sW, sH, tW, tH, scale_eff = compute_scaled_and_target_dims(w0, h0,
\* scale=scale, multiple=128); a ValueError leaves the function
PlanStep(next) ==
    LET p == compute_scaled_and_target_dims(w0, h0, scale, max_w, max_h, multiple)
    IN  IF p.raised
        THEN Raise("InvalidInput", rdr)
        ELSE /\ plan' = p
             /\ pc' = next
             /\ UNCHANGED <<auxVars, policyVars, w0, h0, padArg, F, kind, total, rdr,
                            meta, idx, frames, crop, mainVars>>

\* idx = list(range(total)) + [total - 1] * 4; F = largest_8n1_leq(len(idx));
\* the F == 0 exit (with the reader in state r); idx = idx[:F]
PadStep(next, r) ==
    LET padded == PaddedIdx(total)
        f == largest_8n1_leq(Len(padded))
    IN  IF f = 0
        THEN Raise("InsufficientFrames", r)
        ELSE /\ padArg' = Len(padded)
             /\ F' = f
             /\ idx' = Take(padded, f)
             /\ pc' = next
             /\ UNCHANGED <<auxVars, policyVars, w0, h0, plan, kind, total, rdr, meta,
                            frames, crop, mainVars>>

\* one iteration of the frame loop: the frame named by the next entry of the
\* index sequence is transformed and appended
TransformNext ==
    /\ crop' = upscale_then_center_crop(plan.sW, plan.sH, plan.tW, plan.tH)
    /\ frames' = IF crop'.raised THEN frames
                 ELSE Append(frames, idx[Len(frames) + 1])
    /\ UNCHANGED <<auxVars, policyVars, w0, h0, plan, padArg, F, kind, total, rdr, meta,
                   idx, mainVars>>

DirPlan == pc = "dir_plan" /\ PlanStep("dir_pad")

\* paths0, named by the positions 0 .. N0-1 in the naturally sorted list
SortedPositions(n) == [k \in 1 .. IntMax(n, 0) |-> k - 1]

\* paths = paths0 + [paths0[-1]] * 4
PaddedPathsFirst(p0) == p0 \o [k \in 1 .. PadCount |-> p0[1]]
PaddedPaths(p0) == p0 \o [k \in 1 .. PadCount |-> p0[Len(p0)]]

\* paths = paths0 + [paths0[-1]] * 4; F = largest_8n1_leq(len(paths));
\* if F == 0: raise; paths = paths[:F]
DirPad ==
    /\ pc = "dir_pad"
    /\ LET padded == PaddedPaths(SortedPositions(total))
           f == largest_8n1_leq(Len(padded))
       IN  IF f = 0
           THEN Raise("InsufficientFrames", rdr)
           ELSE /\ padArg' = Len(padded)
                /\ F' = f
                /\ idx' = Take(padded, f)
                /\ pc' = "dir_frames"
                /\ UNCHANGED <<auxVars, policyVars, w0, h0, plan, kind, total,
                               rdr, meta, frames, crop, mainVars>>

\* for p in paths: with Image.open(p).convert('RGB') as img: ...
DirFrame ==
    /\ pc = "dir_frames" /\ Len(frames) < Len(idx)
    /\ \/ Raise("DecodeError", rdr)
       \/ TransformNext /\ UNCHANGED pc

\* fps = 30; return vid, tH, tW, F, fps
DirReturn ==
    /\ pc = "dir_frames" /\ Len(frames) = Len(idx)
    /\ fps' = DefaultFps
    /\ pc' = "main_pipe"
    /\ UNCHANGED <<dimVars, padVars, srcVars, mainVars, path, fpsMeta, tiers,
                   writerFps, prev, sortVars, normVars>>

\* rdr = imageio.get_reader(path)
VidOpen ==
    /\ pc = "pit_entry" /\ kind = "video"
    /\ \/ Raise("DecodeError", rdr)
       \/ /\ rdr' = "open"
          /\ pc' = "vid_first"
          /\ UNCHANGED <<auxVars, dimVars, padVars, kind, total, meta, idx, frames,
                         crop, mainVars>>

\* first = Image.fromarray(rdr.get_data(0)).convert('RGB'); no handler
\* encloses this statement
VidFirst ==
    /\ pc = "vid_first"
    /\ \/ Raise("DecodeError", rdr)
       \/ /\ \E sz \in SourceSizes : w0' = sz[1] /\ h0' = sz[2]
          /\ pc' = "vid_meta"
          /\ UNCHANGED <<auxVars, policyVars, plan, padArg, F, kind, total, rdr, meta,
                         idx, frames, crop, mainVars>>

\* the 'fps' entry of the stream metadata: none, one that is no number, or
\* a number (an integer rate and the NTSC rate 29.97)
FpsEntries ==
    { FpsAbsent,
      [kind |-> "text", val |-> Frac(0, 1)],
      [kind |-> "num", val |-> Frac(24, 1)],
      [kind |-> "num", val |-> Frac(2997, 100)] }

\* fps_val = meta.get('fps', 30)
FpsValue(e) ==
    IF e.kind = "absent" THEN [kind |-> "num", val |-> Frac(DefaultFps, 1)]
    ELSE e

\* fps = int(round(fps_val)) if isinstance(fps_val, (int, float)) else 30
FpsOf(e) ==
    IF FpsValue(e).kind = "num" THEN RoundProduct(1, FpsValue(e).val)
    ELSE DefaultFps

\* meta = {}; try: meta = rdr.get_meta_data() except Exception: pass;
\* then fps_val and fps
VidMeta ==
    /\ pc = "vid_meta"
    /\ \/ meta' = "read" /\ \E e \in FpsEntries : fpsMeta' = e
       \/ meta' = "failed" /\ fpsMeta' = FpsAbsent
    /\ fps' = FpsOf(fpsMeta')
    /\ pc' = "vid_count"
    /\ UNCHANGED <<dimVars, padVars, kind, total, rdr, idx, frames, crop,
                   mainVars, path, tiers, writerFps, prev, sortVars,
                   normVars>>

\* count_frames: a tier returns n, which becomes total
CountReturn(tier, n) ==
    /\ tiers' = Append(tiers, [tier |-> tier, ok |-> TRUE, n |-> n])
    /\ total' = n
    /\ pc' = "vid_check"
    /\ UNCHANGED <<dimVars, padVars, kind, rdr, meta, idx, frames, crop,
                   mainVars, path, fpsMeta, fps, writerFps, prev, sortVars,
                   normVars>>

\* count_frames: a tier gives no count and the next one is tried
CountFallThrough(tier, next) ==
    /\ tiers' = Append(tiers, [tier |-> tier, ok |-> FALSE, n |-> 0])
    /\ pc' = next
    /\ UNCHANGED <<dimVars, padVars, srcVars, mainVars, path, fpsMeta, fps,
                   writerFps, prev, sortVars, normVars>>

\* try: nf = meta.get('nframes', None); if isinstance(nf, int) and nf > 0:
\* return nf; except Exception: pass.  The metadata may hold no such entry,
\* or no positive integer (meta is {} when get_meta_data failed).
CountMeta ==
    /\ pc = "vid_count"
    /\ \/ meta = "read" /\ \E n \in 1 .. MaxFrames : CountReturn("meta", n)
       \/ CountFallThrough("meta", "vid_count_active")

\* try: return r.count_frames(); except Exception: (the manual scan)
CountActiveNoFallback ==
    /\ pc = "vid_count_active"
    /\ \/ \E n \in -1 .. MaxFrames : CountReturn("active", n)
       \/ /\ tiers' = Append(tiers, [tier |-> "active", ok |-> FALSE, n |-> 0])
          /\ total' = 0
          /\ pc' = "vid_check"
          /\ UNCHANGED <<dimVars, padVars, kind, rdr, meta, idx, frames, crop,
                         mainVars, path, fpsMeta, fps, writerFps, prev,
                         sortVars, normVars>>
CountActive ==
    /\ pc = "vid_count_active"
    /\ \/ \E n \in -1 .. MaxFrames : CountReturn("active", n)
       \/ CountFallThrough("active", "vid_count_scan")

\* n = 0; try: while True: r.get_data(n); n += 1; except Exception: return n
CountScan ==
    /\ pc = "vid_count_scan"
    /\ \E n \in 0 .. MaxFrames : CountReturn("scan", n)

\* if total <= 0
NoFramesOnlyNegative(n) == n < 0
NoFrames(n) == n <= 0

\* total = count_frames(rdr); if total <= 0: rdr.close(); raise RuntimeError(
\* f"Cannot read frames from {path}")
VidCheckTotal ==
    /\ pc = "vid_check"
    /\ \/ NoFrames(total) /\ Raise("EmptySource", "closed")
       \/ /\ ~NoFrames(total)
          /\ tiers' = <<>>
          /\ pc' = "vid_plan"
          /\ UNCHANGED <<dimVars, padVars, srcVars, mainVars, path, fpsMeta,
                         fps, writerFps, prev, sortVars, normVars>>

VidPlan == pc = "vid_plan" /\ PlanStep("vid_pad")

\* if F == 0: rdr.close(); raise
VidPad == pc = "vid_pad" /\ PadStep("vid_frames", "closed")

\* try: for i in idx: img = Image.fromarray(rdr.get_data(i))...
\* finally: rdr.close()
VidFrame ==
    /\ pc = "vid_frames" /\ Len(frames) < Len(idx)
    /\ \/ Raise("DecodeError", "closed")
       \/ TransformNext /\ UNCHANGED pc

\* the loop ends, finally: rdr.close(); return vid, tH, tW, F, fps
VidReturn ==
    /\ pc = "vid_frames" /\ Len(frames) = Len(idx)
    /\ rdr' = "closed"
    /\ pc' = "main_pipe"
    /\ UNCHANGED <<auxVars, dimVars, padVars, kind, total, meta, idx, frames, crop,
                   mainVars>>

\* video = pipe(...); video = tensor2video(video): the inference is outside
\* main's try block
MainPipe ==
    /\ pc = "main_pipe"
    /\ \/ Crash("InferenceError")
       \/ /\ pc' = "save_open"
          /\ UNCHANGED <<auxVars, dimVars, padVars, srcVars, mainVars>>

\* save_video: os.makedirs(...); w = imageio.get_writer(path, fps=fps,
\* quality=quality)
SaveOpen ==
    /\ pc = "save_open"
    /\ \/ Crash("WriteError")
       \/ /\ writer' = "open"
          /\ writerFps' = fps
          /\ pc' = "save_frames"
          /\ UNCHANGED <<dimVars, padVars, srcVars, pos, attempted, skipped,
                         reported, err, errPos, written, path, fpsMeta, fps,
                         tiers, prev, sortVars, normVars>>

\* frames = rearrange(frames, "C T H W -> T H W C"); frames = [Image.fromarray(
\* frame) for frame in frames]: the list of the frames along the T axis
tensor2videoReversed(v) == [t \in 1 .. Len(v) |-> v[Len(v) + 1 - t]]
tensor2video(v) == [t \in 1 .. Len(v) |-> v[t]]

\* for f in frames: w.append_data(np.array(f)), over the list that main got
\* from tensor2video
SaveAppend ==
    /\ pc = "save_frames" /\ Len(written) < Len(frames)
    /\ \/ Crash("WriteError")
       \/ /\ written' = Append(written, tensor2video(frames)[Len(written) + 1])
          /\ UNCHANGED <<auxVars, pc, dimVars, padVars, srcVars, pos, attempted,
                         skipped, reported, err, errPos, writer>>

\* w.close(); the loop of main moves to the next input
SaveClose ==
    /\ pc = "save_frames" /\ Len(written) = Len(frames)
    /\ writer' = "closed"
    /\ writerFps' = 0
    /\ written' = <<>>
    /\ ClearLocals
    /\ pos' = pos + 1
    /\ pc' = "main_loop"
    /\ UNCHANGED <<policyVars, rdr, attempted, skipped, reported, err, errPos,
                   prev, sortVars, normVars>>

Next ==
    \/ MainSkipHidden \/ MainCallPrepare \/ MainDone
    \/ PitUnsupported
    \/ DirList \/ DirCheck \/ DirFirst \/ DirPlan \/ DirPad \/ DirFrame
    \/ DirReturn
    \/ VidOpen \/ VidFirst \/ VidMeta
    \/ CountMeta \/ CountActive \/ CountScan \/ VidCheckTotal
    \/ VidPlan \/ VidPad
    \/ VidFrame \/ VidReturn
    \/ MainPipe \/ SaveOpen \/ SaveAppend \/ SaveClose

Spec == Init /\ [][Next]_vars

-----------------------------------------------------------------------------
(* prepare_input_tensor called for a directory and then for a video *)

InitBranches ==
    /\ pc = "pit_entry"
    /\ w0 = 0 /\ h0 = 0
    /\ scale = Frac(DefaultScale, 1)
    /\ max_w = DefaultMaxW /\ max_h = DefaultMaxH /\ multiple = BlockSize
    /\ plan = NoPlan
    /\ padArg = 0
    /\ F = 0
    /\ kind = "dir" /\ total = 0 /\ rdr = "none" /\ meta = "none"
    /\ idx = <<>> /\ frames = <<>> /\ crop = NoCrop
    /\ pos = 1 /\ attempted = {1} /\ skipped = {} /\ reported = {}
    /\ err = "none" /\ errPos = 0 /\ writer = "none" /\ written = <<>>
    /\ path = [type |-> "dir", videoExt |-> FALSE]
    /\ fpsMeta = FpsAbsent /\ fps = 0 /\ tiers = <<>> /\ writerFps = 0
    /\ prev = NoResult
    /\ SortIdle
    /\ NormIdle

\* the call for the directory has ended (returned or raised): its outcome
\* is kept and the call for the video starts
BranchSwitch ==
    /\ pc \in {"main_pipe", "main_loop"} /\ ~prev.set
    /\ prev' = [set |-> TRUE, err |-> err, w0 |-> w0, h0 |-> h0,
                total |-> total, plan |-> plan, F |-> F, idx |-> idx,
                frames |-> frames]
    /\ path' = [type |-> "file", videoExt |-> TRUE]
    /\ kind' = Classify(path')
    /\ w0' = 0 /\ h0' = 0 /\ plan' = NoPlan /\ padArg' = 0 /\ F' = 0
    /\ total' = 0 /\ meta' = "none"
    /\ idx' = <<>> /\ frames' = <<>> /\ crop' = NoCrop
    /\ fpsMeta' = FpsAbsent /\ fps' = 0 /\ tiers' = <<>>
    /\ rdr' = "none"
    /\ err' = "none" /\ errPos' = 0
    /\ pc' = "pit_entry"
    /\ UNCHANGED <<policyVars, pos, attempted, skipped, reported, writer,
                   written, writerFps, sortVars, normVars>>

NextBranches ==
    \/ DirList \/ DirCheck \/ DirFirst \/ DirPlan \/ DirPad \/ DirFrame
    \/ DirReturn
    \/ BranchSwitch
    \/ VidOpen \/ VidFirst \/ VidMeta
    \/ CountMeta \/ CountActive \/ CountScan \/ VidCheckTotal
    \/ VidPlan \/ VidPad
    \/ VidFrame \/ VidReturn

SpecBranches == InitBranches /\ [][NextBranches]_vars

-----------------------------------------------------------------------------
(* normalize_videos.py: process_directory *)

\* everything process_directory leaves alone
driverVars ==
    <<dimVars, padVars, srcVars, mainVars, path, fpsMeta, fps, tiers,
      writerFps, prev, sortVars>>

\* mp4_files = sorted(dir_path.glob('*.mp4')): every file holds its
\* original content
InitNormalize ==
    /\ pc = "nv_entry"
    /\ w0 = 0 /\ h0 = 0
    /\ scale = Frac(DefaultScale, 1)
    /\ max_w = DefaultMaxW /\ max_h = DefaultMaxH /\ multiple = BlockSize
    /\ plan = NoPlan
    /\ padArg = 0 /\ F = 0
    /\ DriverIdle
    /\ SortIdle
    /\ dir_exists \in BOOLEAN
    /\ reference_params \in BOOLEAN
    /\ dry_run \in BOOLEAN
    /\ mp4_files \in { [i \in 1 .. n |-> "original"] : n \in 0 .. MaxVideos }
    /\ video_file = 0
    /\ temp_file = "absent"
    /\ stats = NoStats

\* the loop goes on with the next file, the statistics being st
NextFile(st) ==
    /\ stats' = st
    /\ video_file' = video_file + 1
    /\ pc' = "nv_loop"

\* if not dir_path.exists(): return None
NvEnter ==
    /\ pc = "nv_entry"
    /\ \/ ~dir_exists /\ pc' = "nv_none" /\ UNCHANGED video_file
       \/ dir_exists /\ pc' = "nv_loop" /\ video_file' = 1
    /\ UNCHANGED <<driverVars, dir_exists, reference_params, dry_run,
                   mp4_files, temp_file, stats>>

\* stats['processed'] += 1; video_params = get_video_params(video_file);
\* if not video_params: errors, continue; if dry_run: success, continue
NvParams ==
    /\ pc = "nv_loop" /\ video_file <= Len(mp4_files)
    /\ LET st == [stats EXCEPT !.processed = @ + 1]
       IN  \/ NextFile([st EXCEPT !.errors = @ + 1])
           \/ dry_run /\ NextFile([st EXCEPT !.success = @ + 1])
           \/ /\ ~dry_run
              /\ stats' = st
              /\ pc' = "nv_encode"
              /\ UNCHANGED video_file
    /\ UNCHANGED <<driverVars, dir_exists, reference_params, dry_run,
                   mp4_files, temp_file>>

\* normalize_video(video_file, temp_file, ...): False without reference
\* parameters; ffmpeg writes temp_file and True is returned; ffmpeg fails
\* (CalledProcessError) and False is returned, with or without a partial
\* temp_file; any other exception of subprocess.run is not caught
NvEncode ==
    /\ pc = "nv_encode"
    /\ \/ ~reference_params /\ pc' = "nv_failed" /\ UNCHANGED temp_file
       \/ reference_params /\ temp_file' = "encoded" /\ pc' = "nv_unlink"
       \/ /\ reference_params
          /\ \E t \in {"absent", "partial"} : temp_file' = t
          /\ pc' = "nv_failed"
       \/ reference_params /\ pc' = "nv_raised" /\ UNCHANGED temp_file
    /\ UNCHANGED <<driverVars, dir_exists, reference_params, dry_run,
                   mp4_files, video_file, stats>>

\* else: if temp_file.exists(): temp_file.unlink(); stats['errors'] += 1
NvFailed ==
    /\ pc = "nv_failed"
    /\ \/ /\ temp_file' = "absent"
          /\ NextFile([stats EXCEPT !.errors = @ + 1])
       \/ /\ temp_file # "absent"
          /\ pc' = "nv_raised"
          /\ UNCHANGED <<temp_file, video_file, stats>>
    /\ UNCHANGED <<driverVars, dir_exists, reference_params, dry_run,
                   mp4_files>>

\* try: if output_file.exists(): output_file.unlink()
NvUnlink ==
    /\ pc = "nv_unlink"
    /\ \/ /\ mp4_files' = [mp4_files EXCEPT ![video_file] = "missing"]
          /\ pc' = "nv_rename"
       \/ pc' = "nv_except" /\ UNCHANGED mp4_files
    /\ UNCHANGED <<driverVars, dir_exists, reference_params, dry_run,
                   video_file, temp_file, stats>>

\* temp_file.rename(output_file); stats['success'] += 1
NvRename ==
    /\ pc = "nv_rename"
    /\ \/ /\ mp4_files' = [mp4_files EXCEPT ![video_file] = temp_file]
          /\ temp_file' = "absent"
          /\ NextFile([stats EXCEPT !.success = @ + 1])
       \/ /\ pc' = "nv_except"
          /\ UNCHANGED <<mp4_files, temp_file, video_file, stats>>
    /\ UNCHANGED <<driverVars, dir_exists, reference_params, dry_run>>

\* except Exception as e: if temp_file.exists(): temp_file.unlink();
\* stats['errors'] += 1
NvExcept ==
    /\ pc = "nv_except"
    /\ \/ /\ temp_file' = "absent"
          /\ NextFile([stats EXCEPT !.errors = @ + 1])
       \/ /\ temp_file # "absent"
          /\ pc' = "nv_raised"
          /\ UNCHANGED <<temp_file, video_file, stats>>
    /\ UNCHANGED <<driverVars, dir_exists, reference_params, dry_run,
                   mp4_files>>

\* return stats
NvReturn ==
    /\ pc = "nv_loop" /\ video_file > Len(mp4_files)
    /\ pc' = "nv_done"
    /\ UNCHANGED <<driverVars, normVars>>

NextNormalize ==
    \/ NvEnter \/ NvParams \/ NvEncode \/ NvFailed
    \/ NvUnlink \/ NvRename \/ NvExcept \/ NvReturn

SpecNormalize == InitNormalize /\ [][NextNormalize]_vars

-----------------------------------------------------------------------------
(* Properties of the dimension planner, checked under SpecDims (C1 under
   Spec, where the planner runs with the bounds and block size of the
   program) *)

PlanReturned == pc = "plan_ret"

\* the planner has returned a plan to prepare_input_tensor
PlanInUse == pc \in {"dir_pad", "vid_pad", "dir_frames", "vid_frames"}

\* C1: for w0, h0 > 0 the returned tW and tH are each a positive multiple
\* of `multiple` and do not exceed max_w and max_h.
C1_TargetsAreBoundedBlockMultiples ==
    (PlanReturned \/ PlanInUse) =>
        /\ plan.tW > 0 /\ plan.tW % multiple = 0 /\ plan.tW <= max_w
        /\ plan.tH > 0 /\ plan.tH % multiple = 0 /\ plan.tH <= max_h

\* C5 as stated: the effective scale is always >= 1.0 and <= the requested
\* scale.
C5_ScaleEffBetweenOneAndRequested ==
    PlanReturned =>
        /\ FracLeq(One, plan.scale_eff)
        /\ FracLeq(plan.scale_eff, scale)

\* C5 amended: the effective scale is always >= 1.0, and it is <= the
\* requested scale whenever the requested scale is itself >= 1.0.
C5_ScaleEffAtLeastOne ==
    PlanReturned =>
        /\ FracLeq(One, plan.scale_eff)
        /\ (FracLeq(One, scale) => FracLeq(plan.scale_eff, scale))

\* a plan whose scale was clamped by a bound, strictly between 1 and the
\* requested scale
C5_Witness ==
    /\ PlanReturned
    /\ FracLt(One, plan.scale_eff)
    /\ FracLt(plan.scale_eff, scale)

\* ceil(s / m) * m and floor(s / m) * m, not below one block
CeilMultiple(s, m) == IntMax(m, IF s % m = 0 THEN s ELSE s - (s % m) + m)
FloorMultiple(s, m) == IntMax(m, s - (s % m))

\* C6: the target is the pair of ceiling block multiples exactly when both
\* ceilings fit their maximum; otherwise it is the pair of floor block
\* multiples, each clamped to its maximum.  The choice is joint.
C6_JointCeilingOrClampedFloor ==
    PlanReturned =>
        LET cw == CeilMultiple(plan.sW, multiple)
            ch == CeilMultiple(plan.sH, multiple)
            fw == FloorMultiple(plan.sW, multiple)
            fh == FloorMultiple(plan.sH, multiple)
            fits == cw <= max_w /\ ch <= max_h
        IN  /\ fits => plan.tW = cw /\ plan.tH = ch
            /\ ~fits => plan.tW = IntMin(fw, max_w) /\ plan.tH = IntMin(fh, max_h)
            /\ (plan.tW = cw /\ plan.tH = ch) <=> fits

\* the width could have been rounded up on its own, the height could not,
\* and the width took its floor
C6_Witness ==
    /\ PlanReturned
    /\ CeilMultiple(plan.sW, multiple) <= max_w
    /\ CeilMultiple(plan.sH, multiple) > max_h
    /\ FloorMultiple(plan.sW, multiple) < CeilMultiple(plan.sW, multiple)
    /\ plan.tW = FloorMultiple(plan.sW, multiple)

Scenario1080p ==
    /\ w0 = 1920 /\ h0 = 1080 /\ scale = Frac(4, 1)
    /\ max_w = 2560 /\ max_h = 1440 /\ multiple = 128

\* C7 as stated: 1920x1080 at scale 4 with bounds 2560x1440 and blocks of
\* 128 gives scaled 2560x1440 and target 2560x1440.
C7_ScenarioTarget2560x1440 ==
    (PlanReturned /\ Scenario1080p) =>
        /\ plan.sW = 2560 /\ plan.sH = 1440
        /\ plan.tW = 2560 /\ plan.tH = 1440

\* C7 amended: the same input gives scaled 2560x1440 and target 2560x1408
\* (1440 is not a multiple of 128 and 1536 exceeds the bound).
C7_ScenarioTarget2560x1408 ==
    (PlanReturned /\ Scenario1080p) =>
        /\ plan.sW = 2560 /\ plan.sH = 1440
        /\ plan.tW = 2560 /\ plan.tH = 1408

C7_Witness == PlanReturned /\ Scenario1080p /\ FracEq(plan.scale_eff, Frac(4, 3))

-----------------------------------------------------------------------------
(* Properties of largest_8n1_leq, checked under SpecPad *)

\* the values 8n+1, n >= 0, that do not exceed L
Form8n1UpTo(L) == {8 * n + 1 : n \in 0 .. MaxPadArg} \cap (1 .. L)

\* C4: largest_8n1_leq(L) is the largest 8n+1 (n >= 0) not exceeding L, and
\* is 0 exactly when L < 1; a source of 17 frames pads to 21 and gives
\* F = 17, of which F - 4 = 13 are usable.
C4_LargestForm8n1 ==
    pc = "pad_ret" =>
        /\ (F = 0) <=> (padArg < 1)
        /\ padArg >= 1 =>
              /\ F \in Form8n1UpTo(padArg)
              /\ \A v \in Form8n1UpTo(padArg) : v <= F
        /\ padArg = Len(PaddedIdx(17)) =>
              padArg = 21 /\ F = 17 /\ F - PadCount = 13

C4_Witness == pc = "pad_ret" /\ padArg = Len(PaddedIdx(17)) /\ F = 17

-----------------------------------------------------------------------------
(* Properties of list_images_natural, checked under SpecSort *)

\* the two names split into the same tokens except for one digit run
DifferInOneDigitRun(a, b) ==
    LET ta == ReSplit(a)
        tb == ReSplit(b)
    IN  /\ Len(ta) = Len(tb)
        /\ \E k \in 1 .. Len(ta) :
              /\ IsDigitStr(ta[k]) /\ IsDigitStr(tb[k])
              /\ ta[k] # tb[k]
              /\ \A i \in 1 .. Len(ta) : i # k => ta[i] = tb[i]

\* the integer value of the digit run in which a differs from b
DifferingRunValue(a, b) ==
    LET ta == ReSplit(a)
        tb == ReSplit(b)
    IN  IntOf(ta[CHOOSE k \in 1 .. Len(ta) : ta[k] # tb[k]])

\* C14: list_images_natural compares digit runs as integers: of two listed
\* names that differ only in one digit run, the one with the smaller
\* integer value comes first, and f1.png, f10.png, f2.png in any order are
\* returned as f1, f2, f10.
C14_NaturalOrder ==
    pc = "sort_ret" =>
        /\ \A p \in 1 .. Len(sorted) : \A q \in (p + 1) .. Len(sorted) :
              DifferInOneDigitRun(sorted[p], sorted[q]) =>
                  DifferingRunValue(sorted[p], sorted[q])
                      <= DifferingRunValue(sorted[q], sorted[p])
        /\ Len(listing) = 3 =>
              sorted = << <<"f", "1", ".", "p", "n", "g">>,
                          <<"f", "2", ".", "p", "n", "g">>,
                          <<"f", "1", "0", ".", "p", "n", "g">> >>

\* f10.png was listed before f2.png and f1.png and is returned last
C14_Witness ==
    /\ pc = "sort_ret"
    /\ listing = << <<"f", "1", "0", ".", "p", "n", "g">>,
                    <<"f", "2", ".", "p", "n", "g">>,
                    <<"f", "1", ".", "p", "n", "g">> >>
    /\ sorted = << <<"f", "1", ".", "p", "n", "g">>,
                   <<"f", "2", ".", "p", "n", "g">>,
                   <<"f", "1", "0", ".", "p", "n", "g">> >>

-----------------------------------------------------------------------------
(* Properties of prepare_input_tensor and main, checked under Spec *)

\* the padding step of the running call has built its index sequence
Padded == pc \in {"dir_frames", "vid_frames"}

\* control is in main, outside prepare_input_tensor
InMain == pc \in {"main_loop", "main_pipe", "save_open", "save_frames",
                  "done", "crashed"}

\* C2 as stated: the truncated index sequence starts with 0..N-1 in source
\* order, and its final 4 entries (or all entries after that prefix, if
\* fewer than 4 remain) equal N-1.
C2_FullPrefixThenLastIndex ==
    Padded =>
        /\ Len(idx) >= total
        /\ \A k \in 1 .. IntMin(total, Len(idx)) : idx[k] = k - 1
        /\ LET tail == IF Len(idx) - total >= PadCount
                       THEN (Len(idx) - PadCount + 1) .. Len(idx)
                       ELSE (total + 1) .. Len(idx)
           IN  \A k \in tail : idx[k] = total - 1

\* C2 amended: the truncated index sequence has F entries; its first
\* min(N, F) entries are 0..min(N, F)-1 in source order, and every entry
\* after position N (there are at most 4) equals N-1.
C2_PrefixUpToFThenLastIndex ==
    Padded =>
        /\ Len(idx) = F
        /\ \A k \in 1 .. IntMin(total, F) : idx[k] = k - 1
        /\ \A k \in (total + 1) .. F : idx[k] = total - 1
        /\ F - total <= PadCount

\* a source of which the truncation drops trailing frames, and one whose
\* tail is padded, are both reached; the witness is the former
C2_Witness == Padded /\ F < total /\ Len(idx) = F /\ idx[F] = F - 1

\* C3: for every source frame count >= 1 the padding step returns F with
\* F mod 8 = 1, F <= sourceLen + 4 and F - 4 <= sourceLen.
C3_PaddedCountShape ==
    (Padded /\ total >= 1) =>
        /\ F % 8 = 1
        /\ F <= total + PadCount
        /\ F - PadCount <= total

C3_Witness == Padded /\ total = 13 /\ F = 17

\* C8: once the reader of a video source is open, it is closed on every
\* exit path of prepare_input_tensor.
C8_ReaderClosedOnEveryExit == InMain => rdr # "open"

\* the failures a single input may end with
ListedFailures == {"InvalidInput", "EmptySource", "UnsupportedInput",
                   "InsufficientFrames", "GeometryError", "WriteError"}

\* C9: a failure of a listed kind for one input is reported and does not
\* end the batch: every later input is still attempted (or skipped as a
\* hidden name).
C9_ListedFailureDoesNotEndBatch ==
    (pc \in {"done", "crashed"} /\ err \in ListedFailures) =>
        /\ errPos \in reported
        /\ \A j \in (errPos + 1) .. NumInputs : j \in attempted \cup skipped

\* C10: the per-frame transform fails with a geometry error, and yields no
\* frame, whenever tW > sW or tH > sH.
C10_OversizeCropRaises ==
    (plan.tW > plan.sW \/ plan.tH > plan.sH) =>
        /\ frames = <<>>
        /\ crop = NoCrop \/ crop.raised

\* the count of source frames is known and about to be checked
CountKnown == pc \in {"dir_check", "vid_check"}

\* C11 as stated: for a source frame count of 0 or below, the padding fails
\* with the insufficient-frames error of the F == 0 check, and no frame
\* index plan or tensor is produced.
C11_NoFramesFailsAtPadding ==
    [][(CountKnown /\ total <= 0) =>
          /\ err' = "InsufficientFrames"
          /\ idx' = <<>> /\ frames' = <<>>]_vars

\* C11 amended: for a source frame count of 0 or below, prepare_input_tensor
\* fails before the padding step, with the error of the empty-source check
\* (no images in the directory, or total <= 0 for a video), and no frame
\* index plan or tensor is produced; the F == 0 check never fires.
C11_NoFramesFailsBeforePadding ==
    [][/\ (CountKnown /\ total <= 0) =>
             /\ err' = "EmptySource" /\ pc' = "main_loop"
             /\ idx' = <<>> /\ frames' = <<>> /\ F' = 0
       /\ err' # "InsufficientFrames"]_vars

\* a video whose count was 0 has failed, and its reader is closed
C11_Witness == pc = "main_loop" /\ err = "EmptySource" /\ rdr = "closed"

\* C12: compute_scaled_and_target_dims raises the invalid-input error
\* exactly when w0 <= 0 or h0 <= 0; it then returns no plan (nothing was
\* divided or rounded), and it never raises for positive w0 and h0.
C12_InvalidSizeRaisesExactly ==
    pc \in {"plan_raised", "plan_ret"} =>
        /\ (pc = "plan_raised") <=> (w0 <= 0 \/ h0 <= 0)
        /\ pc = "plan_raised" => plan = [NoPlan EXCEPT !.raised = TRUE]
        /\ pc = "plan_ret" => ~plan.raised

\* the planner raised for a positive width and a non-positive height
C12_Witness == pc = "plan_raised" /\ w0 > 0 /\ h0 <= 0

\* the tiers of count_frames, in the order the code tries them
TierOrder == <<"meta", "active", "scan">>

\* every tier tried so far failed, and they were tried in order
AllFailedInOrder(n) ==
    /\ Len(tiers) = n
    /\ \A i \in 1 .. n : tiers[i].tier = TierOrder[i] /\ ~tiers[i].ok

\* C13: count_frames tries the declared metadata count, then the reader's
\* own count, then the manual scan; a later tier runs only after every
\* earlier one failed, a failed tier always hands over to the next, and the
\* result is the value of the first tier that succeeded.
C13_FirstSucceedingTierDecides ==
    /\ pc = "vid_count" => AllFailedInOrder(0)
    /\ pc = "vid_count_active" => AllFailedInOrder(1)
    /\ pc = "vid_count_scan" => AllFailedInOrder(2)
    /\ pc = "vid_check" =>
          /\ Len(tiers) \in 1 .. 3
          /\ \A i \in 1 .. Len(tiers) :
                /\ tiers[i].tier = TierOrder[i]
                /\ tiers[i].ok <=> i = Len(tiers)
          /\ total = tiers[Len(tiers)].n

\* the manual scan gave the count after both earlier tiers failed
C13_Witness == pc = "vid_check" /\ Len(tiers) = 3 /\ total > 0

\* the frame rate recorded for the source: the metadata value when it is
\* a number, and the default otherwise (image directories have none)
RecordedFps ==
    IF fpsMeta.kind = "num" THEN fpsMeta.val ELSE Frac(DefaultFps, 1)

\* C15: the frame rate the output video is written at equals the frame
\* rate recorded for the source: the metadata value when present and
\* numeric, 30 when absent, non-numeric or for an image directory.
C15_WrittenFpsIsRecordedFps ==
    writer = "open" => FracEq(Frac(writerFps, 1), RecordedFps)

\* prepare_input_tensor has ended without a result and without a reader
NothingReturned ==
    /\ pc = "main_loop" /\ rdr = "none"
    /\ plan = NoPlan /\ idx = <<>> /\ frames = <<>>

\* C17: a directory with no image fails with the empty-source error; a
\* path that is neither a directory nor an existing file with a video
\* extension fails with the unsupported-input error; in both cases nothing
\* is returned and no reader is left open.
C17_ClassifiedFailures ==
    [][/\ (pc = "dir_check" /\ path.type = "dir" /\ total = 0) =>
             (err' = "EmptySource" /\ NothingReturned')
       /\ (/\ pc = "pit_entry"
           /\ path.type # "dir"
           /\ ~(path.type = "file" /\ path.videoExt)) =>
             (err' = "UnsupportedInput" /\ NothingReturned')]_vars

\* a path of a missing file was rejected as unsupported
C17_Witness ==
    pc = "main_loop" /\ err = "UnsupportedInput" /\ rdr = "none" /\ errPos = 1

\* C18: in save_video the writer, once opened, is closed on every exit
\* path, including a failure of append_data part-way through the frames:
\* outside save_video's loop no writer is open.
C18_WriterClosedOnEveryExit == pc # "save_frames" => writer # "open"

\* C19: every plan returned for w0, h0 > 0 has sW >= tW and sH >= tH, so
\* the crop box of upscale_then_center_crop has non-negative offsets and
\* lies inside the sW x sH upscaled image.
C19_CropBoxInsideScaledImage ==
    PlanInUse =>
        /\ plan.sW >= plan.tW /\ plan.sH >= plan.tH
        /\ crop # NoCrop =>
              /\ crop.box[1] >= 0 /\ crop.box[2] >= 0
              /\ crop.box[3] <= plan.sW /\ crop.box[4] <= plan.sH

\* C20: frame order is preserved end to end: the t-th frame of the input
\* tensor is the transform of the source frame named by the t-th entry of
\* the frame index plan, and save_video appends the frames in the order of
\* the reconstructed list, none skipped, duplicated or reordered.
C20_FrameOrderPreserved ==
    /\ [](/\ pc \in {"dir_frames", "vid_frames", "save_frames"} =>
                /\ Len(frames) <= Len(idx)
                /\ \A t \in 1 .. Len(frames) : frames[t] = idx[t]
          /\ pc \in {"main_pipe", "save_open", "save_frames"} => frames = idx
          /\ pc = "save_frames" =>
                /\ Len(written) <= Len(frames)
                /\ \A t \in 1 .. Len(written) : written[t] = frames[t])
    /\ [][(pc = "save_frames" /\ pc' = "main_loop") => written = frames]_vars

\* all frames of a padded sequence of at least 9 frames were appended
C20_Witness ==
    pc = "save_frames" /\ Len(written) = Len(frames) /\ Len(frames) >= 9

-----------------------------------------------------------------------------
(* The two branches of prepare_input_tensor compared, under SpecBranches *)

\* the video call has returned for the width, height and frame count the
\* directory call returned for
SameSource ==
    /\ prev.set /\ prev.err = "none"
    /\ kind = "video" /\ pc = "main_pipe"
    /\ prev.w0 = w0 /\ prev.h0 = h0 /\ prev.total = total

\* C16: for the same width, height, frame count N and scale, the directory
\* branch and the video branch give the same scaled and target dimensions,
\* the same F and the same sequence of source-frame positions; and in both
\* branches the call fails exactly when N <= 0 (a frame that cannot be
\* decoded aside).
C16_BranchesAgree ==
    /\ [](SameSource =>
             /\ plan = prev.plan /\ F = prev.F
             /\ idx = prev.idx /\ frames = prev.frames)
    /\ [][/\ CountKnown => ((total <= 0) <=> (err' # "none"))
          /\ pc \in {"dir_plan", "vid_plan", "dir_pad", "vid_pad"} =>
                err' = "none"
          /\ pc \in {"dir_frames", "vid_frames"} =>
                err' \in {"none", "DecodeError"}]_vars

\* both calls returned for a source of 3 frames, which is cut to 1 frame
C16_Witness == SameSource /\ total = 3 /\ F = 1 /\ frames = prev.frames

-----------------------------------------------------------------------------
(* The truncated index sequence, checked under Spec *)

\* the source indices that occur in the index sequence
IdxValues == { idx[k] : k \in 1 .. Len(idx) }

\* C21: for every source frame count N >= 1 every entry of the truncated
\* index sequence is a source index in 0..N-1 and the sequence is
\* non-decreasing; it holds exactly max(0, F - N) duplicates, a number in
\* 0..4, and omits exactly max(0, N - F) source frames, the trailing ones,
\* a number in 0..3.
C21_IndexSequenceShape ==
    (Padded /\ total >= 1) =>
        /\ Len(idx) = F
        /\ \A k \in 1 .. Len(idx) : idx[k] \in 0 .. (total - 1)
        /\ \A k \in 1 .. (Len(idx) - 1) : idx[k] <= idx[k + 1]
        /\ Len(idx) - Cardinality(IdxValues) = IntMax(0, F - total)
        /\ IntMax(0, F - total) \in 0 .. PadCount
        /\ (0 .. (total - 1)) \ IdxValues = (F .. (total - 1))
        /\ IntMax(0, total - F) \in 0 .. 3

\* a source of 4 frames is cut to 1 frame: 3 trailing frames are omitted
C21_Witness == Padded /\ total = 4 /\ F = 1 /\ idx = <<0>>

-----------------------------------------------------------------------------
(* Properties of process_directory, checked under SpecNormalize *)

\* C22: after each MP4 file has been handled, whatever the outcome of the
\* re-encode, of the unlink of the original and of the rename of the
\* temporary file, a file with the original name exists and holds the
\* original or the re-encoded content.
C22_OriginalNeverLost ==
    \A i \in 1 .. Len(mp4_files) :
        i < video_file => mp4_files[i] \in {"original", "encoded"}

====
